---- MODULE Spec2Model ----
(***************************************************************************)
(* A state-machine model of rlm_repl.py, the persistent mini-REPL.         *)
(*                                                                         *)
(* The durable session is a pickle file at the state path.  Every          *)
(* invocation of the tool is a process that runs one command (init,        *)
(* init-dir, exec, status, export-buffers, reset) from its first line to   *)
(* its exit status.  The file system is modelled with directory entries    *)
(* that name inodes, so that a file handle keeps writing to the inode it   *)
(* opened after the name has been replaced.  Python values are tagged      *)
(* records; dict and list objects that caller code can reach through two   *)
(* names live in a small heap, so that in-place mutation and rebinding     *)
(* are different things, as they are in Python.                            *)
(***************************************************************************)
EXTENDS Integers, Sequences, FiniteSets, TLC

\* ------------------------------------------------------------------ bounds

\* Concurrent invocations of the tool (process slots).
NumProcs == 2
\* Statements of caller code executed in one run.
MaxOps == 2
\* Longest buffers list the caller code is allowed to build.
MaxBuf == 2
\* Pickle tokens handed to the operating system per write call.
BlockLen == 16
\* The longest content chunk_indices is called on, and the largest chunk
\* size and overlap it is called with.
MaxText == 7
MaxSize == 4
\* The most lines in a text that grep is called on, and the largest limit
\* (max_matches, max_objects, max_docs) below the default one.
MaxLines == 4
MaxLimit == 2

Procs == 1..NumProcs

\* ----------------------------------------------------------- Python values

Atom(a) == [kind |-> "atom", val |-> a]
Dict(f) == [kind |-> "dict", val |-> f]
List(s) == [kind |-> "list", val |-> s]
Ref(o) == [kind |-> "ref", val |-> o]
Fn(n) == [kind |-> "fn", val |-> n]

None == Atom("None")
\* A value pickle cannot serialize: a lambda, an open file, a module.
Lambda == Atom("<lambda>")
EmptyDict == Dict(<<>>)
EmptyList == List(<<>>)

isinstance_dict(v) == v.kind = "dict"
isinstance_list(v) == v.kind = "list"

\* d[k] = v on a dict value.
DictSet(d, k, v) == Dict((k :> v) @@ d.val)
\* del d[k] on a dict value.
DictDel(d, k) == Dict([x \in DOMAIN d.val \ {k} |-> d.val[x]])
\* k in d
In(k, d) == k \in DOMAIN d.val
\* d.get(k, default)
DictGet(d, k, default) == IF In(k, d) THEN d.val[k] ELSE default

\* ------------------------------------------------------------------ pickle

\* Structure tokens of the serialized stream; every other token is a key or
\* an atom.  "." is pickle's STOP opcode, NUL a hole left by a write past the
\* end of a truncated file.
STOP == "."
NUL == "NUL"
Structure == {"{", "}", "[", "]", STOP, NUL}

\* The order in which the keys of a dict are written.
KeyOrder == <<"version", "context", "buffers", "globals", "path", "loaded_at",
              "content", "files", "handle", "x", "f", "__builtins__",
              "peek", "grep", "grep_count", "find_lines", "chunk_indices",
              "write_chunks", "add_buffer", "extract_json_objects",
              "extract_yaml_documents", "time_range", "stats">>

RECURSIVE Pickleable(_)
Pickleable(v) ==
    CASE v.kind = "atom" -> v # Lambda
      [] v.kind = "list" -> \A i \in DOMAIN v.val : v.val[i] # Lambda.val
      [] v.kind = "dict" -> \A k \in DOMAIN v.val : Pickleable(v.val[k])
      [] OTHER -> FALSE

RECURSIVE DumpKeys(_, _)
RECURSIVE Dumps(_)
\* The token stream of one value, without the final STOP.
Dumps(v) ==
    CASE v.kind = "dict" -> <<"{">> \o DumpKeys(v.val, 1) \o <<"}">>
      [] v.kind = "list" -> <<"[">> \o v.val \o <<"]">>
      [] OTHER -> <<v.val>>
DumpKeys(f, i) ==
    IF i > Len(KeyOrder) THEN <<>>
    ELSE IF KeyOrder[i] \in DOMAIN f
         THEN <<KeyOrder[i]>> \o Dumps(f[KeyOrder[i]]) \o DumpKeys(f, i + 1)
         ELSE DumpKeys(f, i + 1)

\* pickle.dump(state, f): the whole stream.
pickle_dump(v) == Dumps(v) \o <<STOP>>

\* The tokens pickle.dump gets out before it raises on an unpicklable value.
RECURSIVE UpToLambda(_)
UpToLambda(t) ==
    IF t = <<>> \/ Head(t) = Lambda.val THEN <<>>
    ELSE <<Head(t)>> \o UpToLambda(Tail(t))

ParseFail == [ok |-> FALSE, val |-> None, next |-> 0]

RECURSIVE ParseVal(_, _)
RECURSIVE ParsePairs(_, _, _)
RECURSIVE ParseItems(_, _, _)
ParseVal(t, i) ==
    IF i > Len(t) THEN ParseFail
    ELSE CASE t[i] = "{" -> ParsePairs(t, i + 1, <<>>)
           [] t[i] = "[" -> ParseItems(t, i + 1, <<>>)
           [] t[i] \in Structure \ {"{", "["} -> ParseFail
           [] OTHER -> [ok |-> TRUE, val |-> Atom(t[i]), next |-> i + 1]
ParsePairs(t, i, acc) ==
    IF i > Len(t) THEN ParseFail
    ELSE IF t[i] = "}" THEN [ok |-> TRUE, val |-> Dict(acc), next |-> i + 1]
    ELSE IF t[i] \in Structure THEN ParseFail
    ELSE LET r == ParseVal(t, i + 1)
         IN  IF r.ok THEN ParsePairs(t, r.next, (t[i] :> r.val) @@ acc)
             ELSE ParseFail
ParseItems(t, i, acc) ==
    IF i > Len(t) THEN ParseFail
    ELSE IF t[i] = "]" THEN [ok |-> TRUE, val |-> List(acc), next |-> i + 1]
    ELSE IF t[i] \in Structure THEN ParseFail
    ELSE ParseItems(t, i + 1, Append(acc, t[i]))

\* pickle.load(f): one value up to its STOP; bytes after the STOP are not
\* read.  ok is FALSE when the stream is truncated or malformed (pickle
\* raises EOFError or UnpicklingError).
pickle_load(t) ==
    LET r == ParseVal(t, 1)
    IN  IF r.ok /\ r.next <= Len(t) /\ t[r.next] = STOP
        THEN [ok |-> TRUE, val |-> r.val]
        ELSE [ok |-> FALSE, val |-> None]

\* ------------------------------------------------------------- file system

\* The two names the Session Store uses: state_path and tmp_path, which is
\* state_path.with_suffix(suffix + ".tmp"), the same name for every process.
Paths == {"state", "tmp"}
MaxIno == NumProcs + 2
Inodes == 1..MaxIno

VARIABLES
    dirent,     \* path -> inode number, 0 when no file has that name
    inode,      \* inode number -> the file's tokens
    chunks,     \* the sibling "chunks" directory exists
    pc,         \* process -> where the invocation stands
    cmd,        \* process -> the subcommand it runs
    state,      \* process -> the state dict it holds (cmd_* local `state`)
    rs,         \* process -> the run: the heap and the environment
    fd,         \* process -> its open handle on the temporary file
    status,     \* process -> exit status of the finished invocation
    cap,        \* process -> captured stdout_buf / stderr_buf and dropped
    emitted,    \* process -> what it wrote: stdout, stderr, the export file
    hist,       \* process -> the record of what the invocation has done
    call        \* the call of a helper: its text, its arguments, what it returned

vars == <<dirent, inode, chunks, pc, cmd, state, rs, fd, status, cap,
          emitted, hist, call>>

NoFd == [ino |-> 0, off |-> 0]

\* No helper has been called.
\* text: what the helper read as the content; current: the content of the
\* session when it was called; wrote: the texts of the files it wrote.
NoCall == [fn |-> "none", text |-> <<>>, current |-> <<>>, args |-> <<>>, ret |-> <<>>,
           exc |-> "none", wrote |-> <<>>]

Referenced(d, f, i) == (\E p \in Paths : d[p] = i) \/ (\E q \in Procs : f[q].ino = i)

\* The lowest inode number no name and no handle refers to.
NewIno(d, f) ==
    CHOOSE i \in Inodes :
        /\ ~Referenced(d, f, i)
        /\ \A j \in Inodes : ~Referenced(d, f, j) => i <= j

\* An inode that nothing refers to is gone: its content is forgotten.
Reclaim(ino, d, f) == [i \in Inodes |-> IF Referenced(d, f, i) THEN ino[i] ELSE <<>>]

\* Inode numbers are names the model gives to files.  The file that takes
\* the state path is renumbered 1 (it swaps numbers with whatever file had
\* that number), so that two file systems that differ only in the numbers
\* are one state.
Swap(i, j) == IF j = 1 THEN i ELSE IF j = i THEN 1 ELSE j
Renumber(d, i) == [pth \in Paths |-> IF d[pth] = 0 THEN 0 ELSE Swap(i, d[pth])]

\* The tokens a reader of `path` gets.
FileAt(path) == inode[dirent[path]]
Exists(path) == dirent[path] # 0

\* write(2) of `block` at offset `off` into a file holding `data`: a write
\* past the end leaves a hole.
RECURSIVE Holes(_)
Holes(n) == IF n <= 0 THEN <<>> ELSE <<NUL>> \o Holes(n - 1)
WriteAt(data, off, block) ==
    LET padded == IF Len(data) < off THEN data \o Holes(off - Len(data)) ELSE data
        before == SubSeq(padded, 1, off)
        after  == SubSeq(padded, off + Len(block) + 1, Len(padded))
    IN  before \o block \o after

\* --------------------------------------------------------------- constants

DEFAULT_MAX_OUTPUT_CHARS == 8000
\* main's return values: cmd_* return 0, an RlmReplError returns 2, and an
\* exception main does not catch ends the interpreter with status 1.
EXIT_OK == 0
EXIT_RLM_ERROR == 2
EXIT_UNCAUGHT == 1
\* The status of a process that was killed (it never returned from main).
EXIT_KILLED == 137
\* The argument the modelled caller code hands to sys.exit.
EXIT_CALLER == 3
\* status of a process that has not exited.
RUNNING == -1

\* ------------------------------------------------------------ process state

HeapObjects == {"ctx", "buf", "ctx2", "buf2"}
\* heap: the dict and list objects; env: the dict handed to exec();
\* wrote_chunks: write_chunks has made the chunks directory; call: the last
\* call of a helper; added: what add_buffer was given, in call order.
EmptyRs == [heap |-> [o \in HeapObjects |-> None], env |-> <<>>, wrote_chunks |-> FALSE,
            call |-> NoCall, added |-> <<>>]
EmptyCap == [out |-> <<>>, err |-> <<>>, dropped |-> <<>>]
NoOutput == [out |-> <<>>, err |-> <<>>, warning |-> <<>>, wrote |-> FALSE, file |-> <<>>]
\* loaded: _load_state and the context check passed; ran: exec(code) was
\* called; raised: what the caller code raised; saved: the replace was done;
\* warn: --warn-unpickleable was given; vars: what the caller code's names
\* were bound to when the run ended; session: the state dict handed to
\* _save_state; call: the last call of a helper the caller code made.
NoHist == [loaded |-> FALSE, ran |-> FALSE, raised |-> "none", saved |-> FALSE,
           warn |-> FALSE, vars |-> <<>>, session |-> None, call |-> NoCall]
\* Files that can lie at state_path before this tool first runs: pickles
\* written by something else or by an older layout of the state.
ForeignFiles ==
    { pickle_dump(List(<<"b">>)),
      <<"{", "version">>,
      pickle_dump(Dict("version" :> Atom("1"))) }

Init ==
    /\ \E present \in BOOLEAN, file \in ForeignFiles :
          /\ dirent = [p \in Paths |-> IF p = "state" /\ present THEN 1 ELSE 0]
          /\ inode = [i \in Inodes |-> IF i = 1 /\ present THEN file ELSE <<>>]
          /\ (~present => file = pickle_dump(List(<<"b">>)))
    /\ chunks = FALSE
    /\ pc = [p \in Procs |-> "idle"]
    /\ cmd = [p \in Procs |-> "none"]
    /\ state = [p \in Procs |-> EmptyDict]
    /\ rs = [p \in Procs |-> EmptyRs]
    /\ fd = [p \in Procs |-> NoFd]
    /\ status = [p \in Procs |-> RUNNING]
    /\ cap = [p \in Procs |-> EmptyCap]
    /\ emitted = [p \in Procs |-> NoOutput]
    /\ hist = [p \in Procs |-> NoHist]
    /\ call = NoCall

\* A process slot is free for a new invocation.  A behaviour is followed up
\* to the first save that did not end (the process was killed, or
\* _save_state raised): what it left on disk is the last thing the model
\* observes.
Free(p) ==
    /\ pc[p] \in {"idle", "done"}
    /\ \A q \in Procs : status[q] # EXIT_KILLED /\ ~(status[q] = EXIT_UNCAUGHT /\ hist[q].ran)

\* The invocation of slot p begins with command c.  A finished invocation
\* has left nothing in the slot but what it reported.
Begin(p, c) ==
    /\ Free(p)
    /\ cmd' = [cmd EXCEPT ![p] = c]
    /\ UNCHANGED fd

\* The invocation ends with exit status s, having written `out` and `err`:
\* the memory of the process is gone.
Exit(p, s, out, err) ==
    /\ pc' = [pc EXCEPT ![p] = "done"]
    /\ status' = [status EXCEPT ![p] = s]
    /\ emitted' = [emitted EXCEPT ![p] = [NoOutput EXCEPT !.out = out, !.err = err]]
    /\ state' = [state EXCEPT ![p] = EmptyDict]
    /\ cap' = [cap EXCEPT ![p] = EmptyCap]

\* The invocation goes on to pc value `to`.
Goto(p, to) ==
    /\ pc' = [pc EXCEPT ![p] = to]
    /\ status' = [status EXCEPT ![p] = RUNNING]
    /\ emitted' = [emitted EXCEPT ![p] = NoOutput]

\* ------------------------------------------------------------ Session Store

\* _load_state: the value at state_path, or the error it raises.
\* "unpickle" is an exception of pickle.load, which is no RlmReplError.
_load_state ==
    IF ~Exists("state") THEN [err |-> "no_state", val |-> None]
    ELSE LET r == pickle_load(FileAt("state"))
         IN  IF ~r.ok THEN [err |-> "unpickle", val |-> None]
             ELSE IF ~isinstance_dict(r.val) THEN [err |-> "corrupt", val |-> None]
             ELSE [err |-> "none", val |-> r.val]

\* main letting every failed load return 0.
LoadFails_lenient(p, ld) == Exit(p, EXIT_OK, <<>>, <<"ERROR", ld.err>>)
\* main's handling of a failed load: an RlmReplError is reported and returns
\* 2, any other exception leaves through the interpreter with a traceback.
LoadFails(p, ld) ==
    IF ld.err = "unpickle"
    THEN Exit(p, EXIT_UNCAUGHT, <<>>, <<"Traceback">>)
    ELSE Exit(p, EXIT_RLM_ERROR, <<>>, <<"ERROR", ld.err>>)

\* A save that leaves the persisted variables out of what it writes.
SaveStream_no_globals(p) == pickle_dump(DictSet(state[p], "globals", EmptyDict))
\* What pickle.dump writes for the state of p: everything, or what it gets
\* out before it raises.
SaveStream(p) ==
    IF Pickleable(state[p]) THEN pickle_dump(state[p])
    ELSE UpToLambda(pickle_dump(state[p]))

\* _save_state writing the locator itself, with no temporary name.
tmp_path_in_place == "state"
\* The name _save_state writes to before the replace.
tmp_path == "tmp"

\* _save_state, tmp_path.open("wb"): creates the file or truncates the one
\* that has the name.
SaveOpen(p) ==
    /\ pc[p] = "save"
    /\ LET i == IF Exists(tmp_path) THEN dirent[tmp_path] ELSE NewIno(dirent, fd)
       IN  /\ dirent' = [dirent EXCEPT ![tmp_path] = i]
           /\ inode' = [inode EXCEPT ![i] = <<>>]
           /\ fd' = [fd EXCEPT ![p] = [ino |-> i, off |-> 0]]
    /\ pc' = [pc EXCEPT ![p] = "writing"]
    /\ UNCHANGED <<chunks, cmd, state, rs, status, cap, emitted, hist>>
    /\ UNCHANGED call

\* _save_state, pickle.dump into the buffered file: one write of the next
\* block; the last one is the flush of close().  A value pickle cannot
\* serialize makes dump raise, which no caller catches.
SaveWrite(p) ==
    /\ pc[p] = "writing"
    /\ LET stream == SaveStream(p)
           off    == fd[p].off
           upto   == IF off + BlockLen < Len(stream) THEN off + BlockLen ELSE Len(stream)
           block  == SubSeq(stream, off + 1, upto)
           last   == upto = Len(stream)
           fd2    == [fd EXCEPT ![p] = IF last THEN NoFd ELSE [ino |-> fd[p].ino, off |-> upto]]
       IN  /\ fd' = fd2
           /\ inode' = Reclaim([inode EXCEPT ![fd[p].ino] = WriteAt(@, off, block)], dirent, fd2)
           /\ IF last /\ ~Pickleable(state[p])
              THEN Exit(p, EXIT_UNCAUGHT, <<>>, <<"Traceback">>)
              ELSE /\ pc' = [pc EXCEPT ![p] = IF last THEN "replace" ELSE "writing"]
                   /\ UNCHANGED <<status, emitted, state, cap>>
    /\ UNCHANGED <<dirent, chunks, cmd, rs, hist>>
    /\ UNCHANGED call

\* _save_state, tmp_path.replace(state_path): the rename; FileNotFoundError
\* when nothing has the temporary name any more.
SaveReplace(p) ==
    /\ pc[p] = "replace"
    /\ IF ~Exists(tmp_path)
       THEN /\ Exit(p, EXIT_UNCAUGHT, <<>>, <<"Traceback">>)
            /\ UNCHANGED <<dirent, inode, fd, hist>>
       ELSE LET d2 == [[dirent EXCEPT ![tmp_path] = 0] EXCEPT !["state"] = dirent[tmp_path]]
                i  == dirent[tmp_path]
            IN  /\ dirent' = Renumber(d2, i)
                /\ fd' = [q \in Procs |-> [fd[q] EXCEPT !.ino = Swap(i, @)]]
                /\ inode' = Reclaim([j \in Inodes |-> inode[Swap(i, j)]],
                                    Renumber(d2, i), [q \in Procs |-> [fd[q] EXCEPT !.ino = Swap(i, @)]])
                /\ pc' = [pc EXCEPT ![p] = "saved"]
                /\ hist' = [hist EXCEPT ![p].saved = TRUE]
                /\ UNCHANGED <<status, emitted, state, cap>>
    /\ UNCHANGED <<chunks, cmd, rs>>
    /\ UNCHANGED call

\* The process dies inside _save_state (it is killed): its handle is closed
\* and nothing more is done.
Crash(p) ==
    /\ pc[p] \in {"writing", "replace"}
    /\ LET fd2 == [fd EXCEPT ![p] = NoFd]
       IN  /\ fd' = fd2
           /\ inode' = Reclaim(inode, dirent, fd2)
    /\ Exit(p, EXIT_KILLED, <<>>, <<>>)
    /\ UNCHANGED <<dirent, chunks, cmd, rs, hist>>
    /\ UNCHANGED call

\* ------------------------------------------------------------------ commands

\* The text _read_text_file returns for the context file, and the text
\* cmd_init_dir joins from the files of a directory.
FileText == "c0"
DirText == "c0"

\* cmd_init: read the context file and save a new state.  The context file
\* may not exist (_read_text_file raises RlmReplError).
cmd_init(p) ==
    /\ Begin(p, "init")
    /\ \E found \in BOOLEAN :
          IF ~found
          THEN /\ Exit(p, EXIT_RLM_ERROR, <<>>, <<"ERROR", "no_context_file">>)
               /\ hist' = [hist EXCEPT ![p] = NoHist]
          ELSE LET new == Dict(("version" :> Atom("1"))
                               @@ ("context" :> Dict(("path" :> Atom("ctx_path"))
                                                     @@ ("loaded_at" :> Atom("now"))
                                                     @@ ("content" :> Atom(FileText))))
                               @@ ("buffers" :> EmptyList)
                               @@ ("globals" :> EmptyDict))
               IN  /\ state' = [state EXCEPT ![p] = new]
                   /\ hist' = [hist EXCEPT ![p] = [NoHist EXCEPT !.session = new]]
                   /\ Goto(p, "save")
                   /\ UNCHANGED cap
    /\ UNCHANGED <<dirent, inode, chunks, rs>>
    /\ UNCHANGED call

\* cmd_init_dir: join the matching files of a directory tree and save a new
\* state.  The root may be no directory, or no file may match.
cmd_init_dir(p) ==
    /\ Begin(p, "init-dir")
    /\ \E outcome \in {"not_a_directory", "no_files_matched", "loaded"} :
          IF outcome # "loaded"
          THEN /\ Exit(p, EXIT_RLM_ERROR, <<>>, <<"ERROR", outcome>>)
               /\ hist' = [hist EXCEPT ![p] = NoHist]
          ELSE LET new == Dict(("version" :> Atom("1"))
                               @@ ("context" :> Dict(("path" :> Atom("root"))
                                                     @@ ("loaded_at" :> Atom("now"))
                                                     @@ ("content" :> Atom(DirText))
                                                     @@ ("files" :> List(<<"file1">>))))
                               @@ ("buffers" :> EmptyList)
                               @@ ("globals" :> EmptyDict))
               IN  /\ state' = [state EXCEPT ![p] = new]
                   /\ hist' = [hist EXCEPT ![p] = [NoHist EXCEPT !.session = new]]
                   /\ Goto(p, "save")
                   /\ UNCHANGED cap
    /\ UNCHANGED <<dirent, inode, chunks, rs>>
    /\ UNCHANGED call

\* cmd_init / cmd_init_dir after _save_state: the prints, and return 0.
InitDone(p) ==
    /\ pc[p] = "saved"
    /\ cmd[p] \in {"init", "init-dir"}
    /\ Exit(p, EXIT_OK, <<"Initialized">>, <<>>)
    /\ UNCHANGED <<dirent, inode, chunks, cmd, rs, fd, hist>>
    /\ UNCHANGED call

\* cmd_status: load and print.
cmd_status(p) ==
    /\ Begin(p, "status")
    /\ hist' = [hist EXCEPT ![p] = NoHist]
    /\ LET ld == _load_state
       IN  IF ld.err # "none" THEN LoadFails(p, ld)
           ELSE Exit(p, EXIT_OK, <<"RLM REPL status">>, <<>>)
    /\ UNCHANGED <<dirent, inode, chunks, rs>>
    /\ UNCHANGED call

\* "\n\n".join(str(b) for b in buffers)
RECURSIVE Join(_)
Join(items) ==
    IF Len(items) = 0 THEN <<>>
    ELSE IF Len(items) = 1 THEN items
    ELSE <<Head(items), "\n\n">> \o Join(Tail(items))

\* cmd_export_buffers: load, then write the buffers to the output file.
\* When "buffers" is no list, the join raises TypeError (uncaught).
cmd_export_buffers(p) ==
    /\ Begin(p, "export-buffers")
    /\ hist' = [hist EXCEPT ![p] = NoHist]
    /\ LET ld == _load_state
           buffers == DictGet(ld.val, "buffers", EmptyList)
       IN  IF ld.err # "none"
           THEN LoadFails(p, ld)
           ELSE IF ~isinstance_list(buffers)
           THEN Exit(p, EXIT_UNCAUGHT, <<>>, <<"Traceback">>)
           ELSE /\ pc' = [pc EXCEPT ![p] = "done"]
                /\ status' = [status EXCEPT ![p] = EXIT_OK]
                /\ emitted' = [emitted EXCEPT ![p] =
                      [NoOutput EXCEPT !.out = <<"Wrote">>, !.wrote = TRUE,
                                       !.file = Join(buffers.val)]]
                /\ state' = [state EXCEPT ![p] = EmptyDict]
                /\ cap' = [cap EXCEPT ![p] = EmptyCap]
    /\ UNCHANGED <<dirent, inode, chunks, rs>>
    /\ UNCHANGED call

\* A reset that unlinks the state file and leaves the chunks directory.
cmd_reset_keeps_chunks(p) ==
    /\ Begin(p, "reset")
    /\ hist' = [hist EXCEPT ![p] = NoHist]
    /\ LET d2 == [dirent EXCEPT !["state"] = 0]
       IN  /\ dirent' = d2
           /\ inode' = Reclaim(inode, d2, fd)
    /\ Exit(p, EXIT_OK,
            <<IF Exists("state") THEN "Deleted state" ELSE "No state to delete">>,
            <<>>)
    /\ UNCHANGED <<rs, chunks>>
    /\ UNCHANGED call

\* cmd_reset: unlink the state file if it exists, remove the chunks
\* directory if it exists, return 0.
cmd_reset(p) ==
    /\ Begin(p, "reset")
    /\ hist' = [hist EXCEPT ![p] = NoHist]
    /\ LET d2 == [dirent EXCEPT !["state"] = 0]
       IN  /\ dirent' = d2
           /\ inode' = Reclaim(inode, d2, fd)
    /\ chunks' = FALSE
    /\ Exit(p, EXIT_OK,
            <<IF Exists("state") THEN "Deleted state" ELSE "No state to delete">>
              \o (IF chunks THEN <<"Deleted chunks directory">> ELSE <<>>),
            <<>>)
    /\ UNCHANGED rs
    /\ UNCHANGED call

\* ----------------------------------------------------------------- helpers

\* The helpers of _make_helpers work on context_ref.get("content", ""), a
\* text: here a sequence of characters.
min(a, b) == IF a <= b THEN a ELSE b
max(a, b) == IF a >= b THEN a ELSE b

\* What a call returns or raises.
Returns(v) == [ret |-> v, exc |-> "none"]
RaisesIn(e) == [ret |-> <<>>, exc |-> e]

\* The loop of chunk_indices over range(0, n, step): spans (start, end),
\* offsets counted from 0, up to the first span that reaches n.
RECURSIVE ChunkLoop(_, _, _, _, _)
ChunkLoop(n, size, step, start, spans) ==
    IF start >= n THEN spans
    ELSE LET end == min(n, start + size)
             spans2 == Append(spans, <<start, end>>)
         IN  IF end >= n THEN spans2
             ELSE ChunkLoop(n, size, step, start + step, spans2)

\* A chunk_indices whose step is the chunk size: the overlap is ignored.
chunk_indices_no_overlap(content, size, overlap) ==
    IF size <= 0 THEN RaisesIn("ValueError")
    ELSE IF overlap < 0 THEN RaisesIn("ValueError")
    ELSE IF overlap >= size THEN RaisesIn("ValueError")
    ELSE Returns(ChunkLoop(Len(content), size, size, 0, <<>>))

\* A chunk_indices that corrects the arguments it should refuse.
chunk_indices_clamped(content, size, overlap) ==
    LET size2 == max(size, 1)
        overlap2 == min(max(overlap, 0), size2 - 1)
    IN  Returns(ChunkLoop(Len(content), size2, size2 - overlap2, 0, <<>>))

\* chunk_indices(size, overlap) on the content.
chunk_indices(content, size, overlap) ==
    IF size <= 0 THEN RaisesIn("ValueError")
    ELSE IF overlap < 0 THEN RaisesIn("ValueError")
    ELSE IF overlap >= size THEN RaisesIn("ValueError")
    ELSE Returns(ChunkLoop(Len(content), size, size - overlap, 0, <<>>))

\* The line terminators: str.splitlines breaks a text at "\n", at "\r" and
\* at the pair "\r\n", which is one break of two characters.
LF == "\n"
CR == "\r"

\* content.splitlines(): the lines without their terminators; a text that
\* ends with a terminator has no empty last line.  i is the 1-based index
\* of the next character, cur the line being read.
RECURSIVE SplitLines(_, _, _, _)
SplitLines(text, i, cur, acc) ==
    IF i > Len(text) THEN (IF cur = <<>> THEN acc ELSE Append(acc, cur))
    ELSE IF text[i] = CR /\ i < Len(text) /\ text[i + 1] = LF
         THEN SplitLines(text, i + 2, <<>>, Append(acc, cur))
    ELSE IF text[i] \in {CR, LF}
         THEN SplitLines(text, i + 1, <<>>, Append(acc, cur))
    ELSE SplitLines(text, i + 1, Append(cur, text[i]), acc)

splitlines(text) == SplitLines(text, 1, <<>>, <<>>)

\* Patterns: a literal string (the empty one included) and c*, a run of one
\* character as long as it goes.
Lit(chars) == [kind |-> "lit", val |-> chars]
Star(c) == [kind |-> "star", val |-> c]

RECURSIVE RunEnd(_, _, _)
RunEnd(text, c, pos) ==
    IF pos < Len(text) /\ text[pos + 1] = c THEN RunEnd(text, c, pos + 1) ELSE pos

\* The end offset of the match of the pattern that starts at offset pos,
\* -1 when there is none.  Offsets count from 0.
MatchEnd(text, pat, pos) ==
    IF pat.kind = "lit"
    THEN IF pos + Len(pat.val) <= Len(text)
            /\ SubSeq(text, pos + 1, pos + Len(pat.val)) = pat.val
         THEN pos + Len(pat.val) ELSE -1
    ELSE RunEnd(text, pat.val, pos)

\* The scan of re.finditer and of re.findall: the leftmost match at or after
\* pos, then on from its end; after an empty match the next match may not
\* be empty at the same offset.
RECURSIVE Scan(_, _, _, _, _)
Scan(text, pat, pos, must_advance, acc) ==
    IF pos > Len(text) THEN acc
    ELSE LET e == MatchEnd(text, pat, pos)
         IN  IF e = -1 \/ (e = pos /\ must_advance)
             THEN Scan(text, pat, pos + 1, FALSE, acc)
             ELSE Scan(text, pat, e, e = pos, Append(acc, <<pos, e>>))

finditer(pattern, text) == Scan(text, pattern, 0, FALSE, <<>>)
findall(pattern, text) ==
    LET ms == finditer(pattern, text)
    IN  [i \in 1..Len(ms) |-> SubSeq(text, ms[i][1] + 1, ms[i][2])]

\* grep: line_offsets, the offset at which each line of splitlines() is
\* taken to start: the lengths of the lines before it, plus one each.
RECURSIVE LineOffsets(_, _, _, _)
LineOffsets(lines, i, offset, acc) ==
    IF i > Len(lines) THEN acc
    ELSE LineOffsets(lines, i + 1, offset + Len(lines[i]) + 1, Append(acc, offset))

line_offsets(text) == LineOffsets(splitlines(text), 1, 0, <<>>)

\* grep, _offset_to_line: the binary search over line_offsets; lo and hi
\* are 0-based indexes as in the code.
RECURSIVE OffsetToLine(_, _, _, _)
OffsetToLine(offs, pos, lo, hi) ==
    IF lo > hi THEN hi + 1
    ELSE LET mid == (lo + hi) \div 2
         IN  IF offs[mid + 1] <= pos THEN OffsetToLine(offs, pos, mid + 1, hi)
             ELSE OffsetToLine(offs, pos, lo, mid - 1)

_offset_to_line(offs, pos) == OffsetToLine(offs, pos, 0, Len(offs) - 1)

\* grep, the loop over the matches: append, then break when the list has
\* max_matches results.
RECURSIVE GrepLoop(_, _, _, _, _, _)
GrepLoop(text, ms, i, max_matches, window, out) ==
    IF i > Len(ms) THEN out
    ELSE LET start == ms[i][1]
             end == ms[i][2]
             snippet_start == max(0, start - window)
             snippet_end == min(Len(text), end + window)
             out2 == Append(out, [match |-> SubSeq(text, start + 1, end),
                                  span |-> <<start, end>>,
                                  line |-> _offset_to_line(line_offsets(text), start),
                                  snippet |-> SubSeq(text, snippet_start + 1, snippet_end)])
         IN  IF Len(out2) >= max_matches THEN out2
             ELSE GrepLoop(text, ms, i + 1, max_matches, window, out2)

\* A grep that skips an empty match.
grep_no_empty(content, pattern, max_matches, window) ==
    LET ms == SelectSeq(finditer(pattern, content), LAMBDA m : m[1] < m[2])
    IN  Returns(GrepLoop(content, ms, 1, max_matches, window, <<>>))

\* grep(pattern, max_matches, window)
grep(content, pattern, max_matches, window) ==
    Returns(GrepLoop(content, finditer(pattern, content), 1, max_matches, window, <<>>))

\* grep_count(pattern)
grep_count(content, pattern) == Returns(Len(findall(pattern, content)))

\* regex.search(line): the pattern matches somewhere in the line.
search(pattern, line) == \E pos \in 0..Len(line) : MatchEnd(line, pattern, pos) # -1

\* find_lines, the loop over enumerate(lines, 1): append, then break when
\* the list has max_matches results.
RECURSIVE FindLoop(_, _, _, _, _)
FindLoop(lines, pattern, i, max_matches, out) ==
    IF i > Len(lines) THEN out
    ELSE IF search(pattern, lines[i])
         THEN LET out2 == Append(out, [line_number |-> i, content |-> lines[i]])
              IN  IF Len(out2) >= max_matches THEN out2
                  ELSE FindLoop(lines, pattern, i + 1, max_matches, out2)
    ELSE FindLoop(lines, pattern, i + 1, max_matches, out)

\* find_lines(pattern, max_matches)
find_lines(content, pattern, max_matches) ==
    Returns(FindLoop(splitlines(content), pattern, 1, max_matches, <<>>))

\* str.strip(): without the whitespace at either end.
Whitespace == {" ", LF, CR}
RECURSIVE LStrip(_)
LStrip(t) == IF t # <<>> /\ Head(t) \in Whitespace THEN LStrip(Tail(t)) ELSE t
RECURSIVE RStrip(_)
RStrip(t) ==
    IF t # <<>> /\ t[Len(t)] \in Whitespace THEN RStrip(SubSeq(t, 1, Len(t) - 1)) ELSE t
strip(t) == RStrip(LStrip(t))

\* json.loads on a line that starts with "{": the empty object, with or
\* without spaces between the braces, is the JSON the texts of the model
\* hold; anything else raises JSONDecodeError.
json_loads(line) ==
    IF Len(line) >= 2 /\ line[1] = "{" /\ line[Len(line)] = "}"
       /\ \A i \in 2..(Len(line) - 1) : line[i] = " "
    THEN Returns(EmptyDict)
    ELSE RaisesIn("JSONDecodeError")

\* extract_json_objects, the loop over the lines: strip, try json.loads on
\* a line that starts with "{", append, then break when the list has
\* max_objects results.
RECURSIVE JsonLoop(_, _, _, _)
JsonLoop(lines, i, max_objects, objects) ==
    IF i > Len(lines) THEN objects
    ELSE LET line == strip(lines[i])
         IN  IF line # <<>> /\ Head(line) = "{" /\ json_loads(line).exc = "none"
             THEN LET objects2 == Append(objects, json_loads(line).ret)
                  IN  IF Len(objects2) >= max_objects THEN objects2
                      ELSE JsonLoop(lines, i + 1, max_objects, objects2)
             ELSE JsonLoop(lines, i + 1, max_objects, objects)

\* extract_json_objects(max_objects)
extract_json_objects(content, max_objects) ==
    Returns(JsonLoop(splitlines(content), 1, max_objects, <<>>))

\* re.split(r'^---\s*$', content, flags=re.MULTILINE).  ^ matches at offset
\* 0 and after a "\n"; \s* takes whitespace, newlines included, as far as
\* it can and still end where $ matches: at the end of the text or before a
\* "\n".  SeparatorEnd is the end offset of the separator that starts at
\* pos, -1 when none does.
RECURSIVE WhitespaceEnd(_, _)
WhitespaceEnd(text, pos) ==
    IF pos < Len(text) /\ text[pos + 1] \in Whitespace THEN WhitespaceEnd(text, pos + 1)
    ELSE pos

SeparatorEnd(text, pos) ==
    IF ~(pos = 0 \/ text[pos] = LF) THEN -1
    ELSE IF pos + 3 > Len(text) THEN -1
    ELSE IF SubSeq(text, pos + 1, pos + 3) # <<"-", "-", "-">> THEN -1
    ELSE LET ends == {e \in (pos + 3)..WhitespaceEnd(text, pos + 3) :
                        e = Len(text) \/ text[e + 1] = LF}
         IN  IF ends = {} THEN -1
             ELSE CHOOSE e \in ends : \A e2 \in ends : e2 <= e

\* The segments between the separators, the one before the first and the
\* one after the last included.
RECURSIVE SplitDocs(_, _, _, _)
SplitDocs(text, pos, last, acc) ==
    IF pos > Len(text) THEN Append(acc, SubSeq(text, last + 1, Len(text)))
    ELSE LET e == SeparatorEnd(text, pos)
         IN  IF e = -1 THEN SplitDocs(text, pos + 1, last, acc)
             ELSE SplitDocs(text, e, e, Append(acc, SubSeq(text, last + 1, pos)))

re_split_yaml(content) == SplitDocs(content, 0, 0, <<>>)

\* [d.strip() for d in docs if d.strip()]
RECURSIVE StripNonEmpty(_, _)
StripNonEmpty(docs, i) ==
    IF i > Len(docs) THEN <<>>
    ELSE IF strip(docs[i]) # <<>> THEN <<strip(docs[i])>> \o StripNonEmpty(docs, i + 1)
    ELSE StripNonEmpty(docs, i + 1)

\* extract_yaml_documents(max_docs), for max_docs that is not negative:
\* docs[:max_docs] is cut off first, then the empty segments are dropped.
extract_yaml_documents(content, max_docs) ==
    LET docs == re_split_yaml(content)
    IN  Returns(StripNonEmpty(SubSeq(docs, 1, min(max_docs, Len(docs))), 1))

DEFAULT_MAX_DOCS == 50
DEFAULT_FIND_MAX_MATCHES == 100
DEFAULT_MAX_OBJECTS == 50
DEFAULT_GREP_MAX_MATCHES == 20
DEFAULT_GREP_WINDOW == 200

\* peek(start, end): content[start:end], for offsets that are not negative.
peek(content, start, end) == SubSeq(content, start + 1, min(end, Len(content)))

\* write_chunks(out_dir, size, overlap): the spans of chunk_indices, then
\* the directory, then one file per span; ret is the paths, wrote the text
\* of each file, mkdir whether out_path.mkdir was reached.
write_chunks(content, size, overlap) ==
    LET spans == chunk_indices(content, size, overlap)
    IN  IF spans.exc # "none"
        THEN [ret |-> <<>>, exc |-> spans.exc, wrote |-> <<>>, mkdir |-> FALSE]
        ELSE [ret |-> [i \in 1..Len(spans.ret) |-> <<"chunk", i - 1>>],
              exc |-> "none",
              wrote |-> [i \in 1..Len(spans.ret) |->
                            SubSeq(content, spans.ret[i][1] + 1, spans.ret[i][2])],
              mkdir |-> TRUE]

\* The characters of the texts that the sessions of the model hold as
\* content; a context without content reads as the empty text.
Characters(a) ==
    CASE a = Atom("c0") -> <<"c", "0">>
      [] a = Atom("c1") -> <<"c", "1">>
      [] OTHER -> <<>>

DEFAULT_CHUNK_SIZE == 200000
DEFAULT_PEEK_END == 1000

\* The calls of chunk_indices and write_chunks that caller code makes, with
\* their size and overlap.
ChunkCalls ==
    ("chunk_indices(size=1)" :> <<1, 0>>)
    @@ ("chunk_indices(size=0)" :> <<0, 0>>)
    @@ ("chunk_indices(size=-1)" :> <<-1, 0>>)
    @@ ("chunk_indices(size=2, overlap=-1)" :> <<2, -1>>)
    @@ ("chunk_indices(size=2, overlap=2)" :> <<2, 2>>)
WriteCalls ==
    ("write_chunks(chunks_dir)" :> <<DEFAULT_CHUNK_SIZE, 0>>)
    @@ ("write_chunks(chunks_dir, size=1)" :> <<1, 0>>)
    @@ ("write_chunks(chunks_dir, size=0)" :> <<0, 0>>)
    @@ ("write_chunks(chunks_dir, size=1, overlap=1)" :> <<1, 1>>)

\* ---------------------------------------------------------------- cmd_exec

\* helpers.keys()
HelperNames == {"peek", "grep", "grep_count", "find_lines", "chunk_indices",
                "write_chunks", "add_buffer", "extract_json_objects",
                "extract_yaml_documents", "time_range", "stats"}

injected_keys == {"__builtins__", "context", "content", "buffers"} \cup HelperNames

\* cmd_exec up to the call of exec(code, env, env): load, the context check,
\* the tolerant read of buffers and globals, the environment.  The context
\* dict and the buffers list are objects of the heap: state, env and the
\* helpers' context_ref / buffers_ref all refer to the same two objects.
cmd_exec(p) ==
    /\ Begin(p, "exec")
    /\ LET ld == _load_state
           ctx == DictGet(ld.val, "context", None)
       IN  IF ld.err # "none"
           THEN /\ LoadFails(p, ld)
                /\ hist' = [hist EXCEPT ![p] = NoHist]
                /\ UNCHANGED rs
           ELSE IF ~isinstance_dict(ctx) \/ ~In("content", ctx)
           THEN /\ Exit(p, EXIT_RLM_ERROR, <<>>, <<"ERROR", "missing_context">>)
                /\ hist' = [hist EXCEPT ![p] = NoHist]
                /\ UNCHANGED rs
           ELSE LET b0 == DictGet(ld.val, "buffers", EmptyList)
                    buffers == IF isinstance_list(b0) THEN b0 ELSE EmptyList
                    g0 == DictGet(ld.val, "globals", EmptyDict)
                    persisted == IF isinstance_dict(g0) THEN g0 ELSE EmptyDict
                    helpers == [n \in HelperNames |-> Fn(n)]
                    env == ("__builtins__" :> Fn("builtins"))
                           @@ helpers
                           @@ ("context" :> Ref("ctx"))
                           @@ ("content" :> DictGet(ctx, "content", Atom("")))
                           @@ ("buffers" :> Ref("buf"))
                           @@ persisted.val
                IN  /\ hist' = [hist EXCEPT ![p] = [NoHist EXCEPT !.loaded = TRUE]]
                    /\ state' = [state EXCEPT ![p] =
                          DictSet(DictSet(DictSet(ld.val, "context", Ref("ctx")),
                                          "buffers", Ref("buf")),
                                  "globals", persisted)]
                    /\ Goto(p, "loaded")
                    /\ UNCHANGED cap
                    /\ rs' = [rs EXCEPT ![p] =
                          [heap |-> [EmptyRs.heap EXCEPT !["ctx"] = ctx, !["buf"] = buffers],
                           env |-> env, wrote_chunks |-> FALSE,
                           call |-> NoCall, added |-> <<>>]]
    /\ UNCHANGED <<dirent, inode, chunks>>
    /\ UNCHANGED call

\* The statements caller code is made of.
CtxStmts == {"context['content'] = 'c1'", "del context['content']",
             "context = {'content': 'c1'}", "context = None", "del context",
             "context['handle'] = lambda: 0"}
BufStmts == {"buffers.append('b')", "add_buffer('a')", "buffers = []",
             "buffers = None", "del buffers"}
VarStmts == {"x = 'v1'", "del x", "f = lambda: 0", "peek = 'v1'"}
OtherStmts == {"raise ValueError", "raise SystemExit(3)", "write_chunks(chunks_dir)"}
Stmts == CtxStmts \cup BufStmts \cup VarStmts \cup OtherStmts

\* Caller code: a sequence of at most MaxOps statements.
Programs == UNION {[1..n -> Stmts] : n \in 0..MaxOps}

\* The outcome of a statement: the run state after it and what it raised.
\* "Exception" is any exception class derived from Exception (NameError,
\* TypeError, KeyError, ValueError); "SystemExit" derives from BaseException
\* only.
Ok(r) == [rs |-> r, exc |-> "none"]
Raises(r, e) == [rs |-> r, exc |-> e]

\* The heap object the name is bound to when that object is of `kind`,
\* "" when the name is unbound or bound to something else.
ObjOf(r, name, kind) ==
    IF name \notin DOMAIN r.env THEN ""
    ELSE IF r.env[name].kind # "ref" THEN ""
    ELSE IF r.heap[r.env[name].val].kind # kind THEN ""
    ELSE r.env[name].val

\* name = value
Bind(r, name, v) == [r EXCEPT !.env = (name :> v) @@ r.env]
\* del name
Unbind(r, name) == [r EXCEPT !.env = [n \in DOMAIN r.env \ {name} |-> r.env[n]]]
\* obj.append(item)
ListAppend(r, o, item) == [r EXCEPT !.heap[o] = List(Append(r.heap[o].val, item))]

\* The text the helpers work on: context_ref.get("content", ""), where
\* context_ref is the dict that cmd_exec took from the loaded state.
ContextText(r) == Characters(DictGet(r.heap["ctx"], "content", Atom("")))

\* The content of the session as cmd_exec would save it if the caller code
\* ended here: that of env["context"] when it is a dict with a content,
\* that of the dict from the loaded state otherwise.
SessionText(r) ==
    LET c == ObjOf(r, "context", "dict")
    IN  IF c # "" /\ In("content", r.heap[c])
        THEN Characters(r.heap[c].val["content"])
        ELSE ContextText(r)

\* The run after a helper was called with args and returned or raised res.
HelperCalled(r, fn, args, res, files) ==
    [r EXCEPT !.call = [fn |-> fn, text |-> ContextText(r), current |-> SessionText(r),
                        args |-> args, ret |-> res.ret, exc |-> res.exc,
                        wrote |-> files]]

\* One statement of caller code, run by exec(code, env, env).
Exec1(r, s) ==
    LET c == ObjOf(r, "context", "dict")
        b == ObjOf(r, "buffers", "list")
    IN  CASE s = "context['content'] = 'c1'" ->
                IF c = "" THEN Raises(r, "Exception")
                ELSE Ok([r EXCEPT !.heap[c] = DictSet(r.heap[c], "content", Atom("c1"))])
          [] s = "del context['content']" ->
                IF c = "" THEN Raises(r, "Exception")
                ELSE IF ~In("content", r.heap[c]) THEN Raises(r, "Exception")
                ELSE Ok([r EXCEPT !.heap[c] = DictDel(r.heap[c], "content")])
          [] s = "context['handle'] = lambda: 0" ->
                IF c = "" THEN Raises(r, "Exception")
                ELSE Ok([r EXCEPT !.heap[c] = DictSet(r.heap[c], "handle", Lambda)])
          [] s = "context = {'content': 'c1'}" ->
                Ok(Bind([r EXCEPT !.heap["ctx2"] = Dict("content" :> Atom("c1"))],
                        "context", Ref("ctx2")))
          [] s = "context = None" -> Ok(Bind(r, "context", None))
          [] s = "del context" ->
                IF "context" \in DOMAIN r.env THEN Ok(Unbind(r, "context"))
                ELSE Raises(r, "Exception")
          [] s = "buffers.append('b')" ->
                IF b = "" THEN Raises(r, "Exception") ELSE Ok(ListAppend(r, b, "b"))
          [] s = "add_buffer('a')" ->
                \* buffers_ref.append(str(text)): the list the helpers closed over
                Ok([ListAppend(r, "buf", "a") EXCEPT !.added = Append(r.added, "a")])
          [] s = "add_buffer(1)" ->
                \* str(1)
                Ok([ListAppend(r, "buf", "1") EXCEPT !.added = Append(r.added, "1")])
          [] s = "buffers = []" ->
                Ok(Bind([r EXCEPT !.heap["buf2"] = EmptyList], "buffers", Ref("buf2")))
          [] s = "buffers = None" -> Ok(Bind(r, "buffers", None))
          [] s = "del buffers" ->
                IF "buffers" \in DOMAIN r.env THEN Ok(Unbind(r, "buffers"))
                ELSE Raises(r, "Exception")
          [] s = "x = 'v1'" -> Ok(Bind(r, "x", Atom("v1")))
          [] s = "del x" ->
                IF "x" \in DOMAIN r.env THEN Ok(Unbind(r, "x"))
                ELSE Raises(r, "Exception")
          [] s = "f = lambda: 0" -> Ok(Bind(r, "f", Lambda))
          [] s = "peek = 'v1'" -> Ok(Bind(r, "peek", Atom("v1")))
          [] s = "raise ValueError" -> Raises(r, "Exception")
          [] s = "raise SystemExit(3)" -> Raises(r, "SystemExit")
          [] s = "peek()" ->
                Ok(HelperCalled(r, "peek", <<0, DEFAULT_PEEK_END>>,
                                Returns(peek(ContextText(r), 0, DEFAULT_PEEK_END)), <<>>))
          [] s \in DOMAIN ChunkCalls ->
                LET a == ChunkCalls[s]
                    res == chunk_indices(ContextText(r), a[1], a[2])
                    r2 == HelperCalled(r, "chunk_indices", a, res, <<>>)
                IN  IF res.exc # "none" THEN Raises(r2, "Exception") ELSE Ok(r2)
          [] s \in DOMAIN WriteCalls ->
                LET a == WriteCalls[s]
                    res == write_chunks(ContextText(r), a[1], a[2])
                    r2 == HelperCalled(r, "write_chunks", a, res, res.wrote)
                IN  IF res.exc # "none" THEN Raises(r2, "Exception")
                    ELSE Ok([r2 EXCEPT !.wrote_chunks = res.mkdir])

\* The statement keeps the lists within the model's bound.
WithinBounds(r, s) ==
    CASE s = "buffers.append('b')" ->
            LET b == ObjOf(r, "buffers", "list")
            IN  IF b = "" THEN TRUE ELSE Len(r.heap[b].val) < MaxBuf
      [] s \in {"add_buffer('a')", "add_buffer(1)"} -> Len(r.heap["buf"].val) < MaxBuf
      [] OTHER -> TRUE

\* exec(code, env, env): the statements in order up to the first that
\* raises.  ok is FALSE for a program the model does not run: one that
\* leaves the bounds, or that goes on after the statement that raised.
RECURSIVE Exec(_, _, _)
Exec(r, code, i) ==
    IF i > Len(code) THEN [rs |-> r, exc |-> "none", ok |-> TRUE]
    ELSE IF ~WithinBounds(r, code[i]) THEN [rs |-> r, exc |-> "none", ok |-> FALSE]
    ELSE LET res == Exec1(r, code[i])
         IN  IF res.exc # "none"
             THEN [rs |-> res.rs, exc |-> res.exc, ok |-> i = Len(code)]
             ELSE Exec(res.rs, code, i + 1)

\* `except Exception` catches the exception.
Caught(exc) == exc = "Exception"

\* What the caller code's own names are bound to: the entries of env that
\* are neither the context, content or buffers bindings nor a helper.
CallerVars(env) ==
    [n \in {m \in DOMAIN env : m \notin {"__builtins__", "context", "content", "buffers"}
                               /\ env[m].kind # "fn"} |-> env[n]]

\* cmd_exec, the try block: run the caller code with stdout and stderr
\* captured.  An exception that `except Exception` does not catch leaves
\* cmd_exec and main; the interpreter exits with its status.
ExecRun(p, code) ==
    /\ pc[p] = "loaded"
    /\ LET res == Exec(rs[p], code, 1)
       IN  /\ res.ok
           /\ hist' = [hist EXCEPT ![p].ran = TRUE, ![p].raised = res.exc,
                                   ![p].vars = CallerVars(res.rs.env),
                                   ![p].call = res.rs.call]
           /\ chunks' = (chunks \/ res.rs.wrote_chunks)
           /\ IF res.exc = "none" \/ Caught(res.exc)
              THEN /\ rs' = [rs EXCEPT ![p] = res.rs]
                   /\ cap' = [cap EXCEPT ![p].err =
                                 IF res.exc = "none" THEN <<>> ELSE <<"Traceback">>]
                   /\ pc' = [pc EXCEPT ![p] = "ran"]
                   /\ UNCHANGED <<state, status, emitted>>
              ELSE /\ rs' = [rs EXCEPT ![p] = EmptyRs]
                   /\ Exit(p, EXIT_CALLER, <<>>, <<>>)
    /\ UNCHANGED <<dirent, inode, cmd, fd>>
    /\ UNCHANGED call

\* _is_pickleable: pickle.dumps(value) does not raise.
_is_pickleable(v) == Pickleable(v)

\* The names of S in the order the dict yields them.
RECURSIVE InOrder(_, _)
InOrder(S, i) ==
    IF i > Len(KeyOrder) THEN <<>>
    ELSE IF KeyOrder[i] \in S THEN <<KeyOrder[i]>> \o InOrder(S, i + 1)
    ELSE InOrder(S, i + 1)

\* _filter_pickleable: (kept, dropped)
_filter_pickleable(d) ==
    LET keep == {k \in DOMAIN d : _is_pickleable(d[k])}
    IN  [kept |-> [k \in keep |-> d[k]],
         dropped |-> InOrder(DOMAIN d \ keep, 1)]

\* {k: v for k, v in env.items() if k not in injected_keys}
to_persist(env) == [k \in DOMAIN env \ injected_keys |-> env[k]]

\* The value a reference stands for.
Deref(r, v) == IF v.kind = "ref" THEN r.heap[v.val] ELSE v

\* env.get("context") and env.get("buffers")
maybe_ctx(r) == IF "context" \in DOMAIN r.env THEN r.env["context"] ELSE None
maybe_buffers(r) == IF "buffers" \in DOMAIN r.env THEN r.env["buffers"] ELSE None

\* The state dict as pickle will see it: each object it refers to, by value.
Resolve(st, r) == Dict([k \in DOMAIN st.val |-> Deref(r, st.val[k])])

\* A reconciliation that takes env.get("buffers") whatever it is.
Reconcile_any_buffers(p) ==
    /\ pc[p] = "ran"
    /\ LET r  == rs[p]
           s1 == IF isinstance_dict(Deref(r, maybe_ctx(r))) /\ In("content", Deref(r, maybe_ctx(r)))
                 THEN DictSet(state[p], "context", maybe_ctx(r)) ELSE state[p]
           s2 == DictSet(s1, "buffers", maybe_buffers(r))
           fd_ == _filter_pickleable(to_persist(r.env))
           s3 == DictSet(s2, "globals", Dict(fd_.kept))
       IN  /\ state' = [state EXCEPT ![p] = Resolve(s3, r)]
           /\ hist' = [hist EXCEPT ![p].session = Resolve(s3, r)]
           /\ cap' = [cap EXCEPT ![p].dropped = fd_.dropped]
    /\ rs' = [rs EXCEPT ![p] = EmptyRs]
    /\ pc' = [pc EXCEPT ![p] = "save"]
    /\ UNCHANGED <<dirent, inode, chunks, cmd, fd, status, emitted>>
    /\ UNCHANGED call

\* cmd_exec after the try block: pull back context and buffers, filter the
\* variables, set state["globals"].  From here on the caller code's
\* environment is no longer used.
Reconcile(p) ==
    /\ pc[p] = "ran"
    /\ LET r  == rs[p]
           s1 == IF isinstance_dict(Deref(r, maybe_ctx(r))) /\ In("content", Deref(r, maybe_ctx(r)))
                 THEN DictSet(state[p], "context", maybe_ctx(r)) ELSE state[p]
           s2 == IF isinstance_list(Deref(r, maybe_buffers(r)))
                 THEN DictSet(s1, "buffers", maybe_buffers(r)) ELSE s1
           fd_ == _filter_pickleable(to_persist(r.env))
           s3 == DictSet(s2, "globals", Dict(fd_.kept))
       IN  /\ state' = [state EXCEPT ![p] = Resolve(s3, r)]
           /\ hist' = [hist EXCEPT ![p].session = Resolve(s3, r)]
           /\ cap' = [cap EXCEPT ![p].dropped = fd_.dropped]
    /\ rs' = [rs EXCEPT ![p] = EmptyRs]
    /\ pc' = [pc EXCEPT ![p] = "save"]
    /\ UNCHANGED <<dirent, inode, chunks, cmd, fd, status, emitted>>
    /\ UNCHANGED call

\* _truncate, on a text of tokens: its length is the number of tokens.
_truncate(t, max_chars) ==
    IF max_chars <= 0 THEN <<>>
    ELSE IF Len(t) <= max_chars THEN t
    ELSE SubSeq(t, 1, max_chars) \o <<"[truncated]">>

\* ", ".join(names)
RECURSIVE JoinComma(_)
JoinComma(names) ==
    IF Len(names) = 0 THEN <<>>
    ELSE IF Len(names) = 1 THEN names
    ELSE <<Head(names), ", ">> \o JoinComma(Tail(names))

\* The values of --max-output-chars the model runs with.
MaxOutputChars == {0, 1, DEFAULT_MAX_OUTPUT_CHARS}

\* cmd_exec after _save_state: the warning, the truncated output, return 0.
\* The two options are arguments of the invocation; nothing before this
\* point reads them.
ExecEmit(p) ==
    /\ pc[p] = "saved"
    /\ cmd[p] = "exec"
    /\ \E warn_unpickleable \in BOOLEAN, max_output_chars \in MaxOutputChars :
          LET out == cap[p].out
              warns == cap[p].dropped # <<>> /\ warn_unpickleable
              msg == <<"Dropped unpickleable variables: ">> \o JoinComma(cap[p].dropped)
              err == IF warns
                     THEN cap[p].err \o (IF cap[p].err # <<>> THEN <<"\n">> ELSE <<>>)
                          \o msg \o <<"\n">>
                     ELSE cap[p].err
          IN  /\ emitted' = [emitted EXCEPT ![p] =
                    [NoOutput EXCEPT
                       !.out = IF out # <<>> THEN _truncate(out, max_output_chars) ELSE <<>>,
                       !.err = IF err # <<>> THEN _truncate(err, max_output_chars) ELSE <<>>,
                       !.warning = IF warns THEN msg ELSE <<>>]]
              /\ hist' = [hist EXCEPT ![p].warn = warn_unpickleable]
    /\ pc' = [pc EXCEPT ![p] = "done"]
    /\ status' = [status EXCEPT ![p] = EXIT_OK]
    /\ state' = [state EXCEPT ![p] = EmptyDict]
    /\ cap' = [cap EXCEPT ![p] = EmptyCap]
    /\ UNCHANGED <<dirent, inode, chunks, cmd, rs, fd>>
    /\ UNCHANGED call

\* ------------------------------------------------------------ specifications

\* One invocation at a time: every command, started when the one before has
\* exited.
Next ==
    \E p \in {1} :
        \/ cmd_init(p)
        \/ cmd_init_dir(p)
        \/ InitDone(p)
        \/ cmd_status(p)
        \/ cmd_export_buffers(p)
        \/ cmd_reset(p)
        \/ cmd_exec(p)
        \/ \E code \in Programs : ExecRun(p, code)
        \/ Reconcile(p)
        \/ SaveOpen(p)
        \/ SaveWrite(p)
        \/ SaveReplace(p)
        \/ Crash(p)
        \/ ExecEmit(p)

Spec == Init /\ [][Next]_vars

\* One invocation at a time, every command, with caller code of at most one
\* statement: the sessions are the same as under Spec, reached one
\* statement per exec.  What is asked of the Session Store alone (its load
\* and its save) is checked here.
StorePrograms == {<<>>} \cup {<<s>> : s \in Stmts}

NextStore ==
    \E p \in {1} :
        \/ cmd_init(p)
        \/ cmd_init_dir(p)
        \/ InitDone(p)
        \/ cmd_status(p)
        \/ cmd_export_buffers(p)
        \/ cmd_reset(p)
        \/ cmd_exec(p)
        \/ \E code \in StorePrograms : ExecRun(p, code)
        \/ Reconcile(p)
        \/ SaveOpen(p)
        \/ SaveWrite(p)
        \/ SaveReplace(p)
        \/ Crash(p)
        \/ ExecEmit(p)

SpecStore == Init /\ [][NextStore]_vars

\* Concurrent invocations of exec on a session that init has saved, one in
\* each process slot.
ConcSession ==
    Dict(("version" :> Atom("1"))
         @@ ("context" :> Dict(("path" :> Atom("ctx_path"))
                               @@ ("loaded_at" :> Atom("now"))
                               @@ ("content" :> Atom(FileText))))
         @@ ("buffers" :> EmptyList)
         @@ ("globals" :> EmptyDict))

InitConc ==
    /\ dirent = [p \in Paths |-> IF p = "state" THEN 1 ELSE 0]
    /\ inode = [i \in Inodes |-> IF i = 1 THEN pickle_dump(ConcSession) ELSE <<>>]
    /\ chunks = FALSE
    /\ pc = [p \in Procs |-> "idle"]
    /\ cmd = [p \in Procs |-> "none"]
    /\ state = [p \in Procs |-> EmptyDict]
    /\ rs = [p \in Procs |-> EmptyRs]
    /\ fd = [p \in Procs |-> NoFd]
    /\ status = [p \in Procs |-> RUNNING]
    /\ cap = [p \in Procs |-> EmptyCap]
    /\ emitted = [p \in Procs |-> NoOutput]
    /\ hist = [p \in Procs |-> NoHist]
    /\ call = NoCall

\* The caller code of the concurrent invocations: at most one statement.
ConcPrograms ==
    {<<>>, <<"context['content'] = 'c1'">>, <<"x = 'v1'">>, <<"add_buffer('a')">>}

NextConc ==
    \E p \in Procs :
        \/ (pc[p] = "idle" /\ cmd_exec(p))
        \/ \E code \in ConcPrograms : ExecRun(p, code)
        \/ Reconcile(p)
        \/ SaveOpen(p)
        \/ SaveWrite(p)
        \/ SaveReplace(p)
        \/ ExecEmit(p)

SpecConc == InitConc /\ [][NextConc]_vars

\* Runs of exec, one after the other on a session that init has saved,
\* whose caller code is one call of chunk_indices or write_chunks, or one
\* statement that changes the content.
ChunkStmts ==
    DOMAIN ChunkCalls \cup DOMAIN WriteCalls
    \cup {"context['content'] = 'c1'", "del context['content']", "add_buffer('a')"}
ChunkPrograms == {<<s>> : s \in ChunkStmts}

NextChunkRuns ==
    \E p \in {1} :
        \/ cmd_exec(p)
        \/ \E code \in ChunkPrograms : ExecRun(p, code)
        \/ Reconcile(p)
        \/ SaveOpen(p)
        \/ SaveWrite(p)
        \/ SaveReplace(p)
        \/ ExecEmit(p)

SpecChunkRuns == InitConc /\ [][NextChunkRuns]_vars

\* The texts that grep is called on: up to MaxLines pieces, each a line body
\* and a terminator, either of which can be empty.
RECURSIVE Concat(_, _)
Concat(pieces, i) == IF i > Len(pieces) THEN <<>> ELSE pieces[i] \o Concat(pieces, i + 1)

LinePieces == {b \o t : b \in {<<>>, <<"a">>}, t \in {<<>>, <<LF>>, <<CR, LF>>}}
LineTexts == {Concat(f, 1) : f \in UNION {[1..k -> LinePieces] : k \in 0..MaxLines}}

GrepPatterns == {Lit(<<"a">>), Lit(<<>>), Star("a")}
GrepLimits == (0..MaxLimit) \cup {DEFAULT_GREP_MAX_MATCHES}

\* Runs of exec, one after the other on a session that init has saved,
\* whose caller code changes the content or the buffers, in place or by
\* rebinding the name, and calls peek and add_buffer.
RunStmts ==
    {"context['content'] = 'c1'", "context = {'content': 'c1'}", "context = None",
     "peek()", "add_buffer('a')", "add_buffer(1)",
     "buffers.append('b')", "buffers = []", "buffers = None"}
RunPrograms == UNION {[1..n -> RunStmts] : n \in 0..MaxOps}

NextRuns ==
    \E p \in {1} :
        \/ cmd_exec(p)
        \/ \E code \in RunPrograms : ExecRun(p, code)
        \/ Reconcile(p)
        \/ SaveOpen(p)
        \/ SaveWrite(p)
        \/ SaveReplace(p)
        \/ ExecEmit(p)

SpecRuns == InitConc /\ [][NextRuns]_vars

\* The texts that the helpers with a limit are called on: up to MaxLines
\* lines, each a word, a JSON object, an object between spaces or a brace
\* alone.
LimitPieces == {<<"a", LF>>, <<"{", "}", LF>>, <<" ", "{", " ", "}", " ", LF>>, <<"{", LF>>}
LimitTexts == {Concat(f, 1) : f \in UNION {[1..k -> LimitPieces] : k \in 0..MaxLines}}
Limits(default) == (0..MaxLimit) \cup {default}

\* The texts that extract_yaml_documents is called on: up to MaxLines lines,
\* each a separator (bare or with a trailing space), a word, three dashes
\* with a word after them, or an empty line.
YamlPieces ==
    {<<"-", "-", "-", LF>>, <<"-", "-", "-", " ", LF>>, <<"a", LF>>,
     <<"-", "-", "-", "a", LF>>, <<LF>>}
YamlTexts == {Concat(f, 1) : f \in UNION {[1..k -> YamlPieces] : k \in 0..MaxLines}}

\* Sessions written by an older layout: a valid context, and buffers and
\* globals each missing, of another type, or as cmd_init writes them; the
\* commands run on such a file, one invocation at a time.
LegacyShapes == {"missing", "None", "atom", "other", "empty", "filled"}
LegacyBuffers(shape) ==
    CASE shape = "None" -> None
      [] shape = "atom" -> Atom("legacy")
      [] shape = "other" -> EmptyDict
      [] shape = "empty" -> EmptyList
      [] shape = "filled" -> List(<<"b">>)
LegacyGlobals(shape) ==
    CASE shape = "None" -> None
      [] shape = "atom" -> Atom("legacy")
      [] shape = "other" -> EmptyList
      [] shape = "empty" -> EmptyDict
      [] shape = "filled" -> Dict("x" :> Atom("v1"))
LegacySession(b, g) ==
    LET base == ("version" :> Atom("1"))
                @@ ("context" :> Dict(("path" :> Atom("ctx_path"))
                                      @@ ("loaded_at" :> Atom("now"))
                                      @@ ("content" :> Atom(FileText))))
        withb == IF b = "missing" THEN base ELSE ("buffers" :> LegacyBuffers(b)) @@ base
    IN  Dict(IF g = "missing" THEN withb ELSE ("globals" :> LegacyGlobals(g)) @@ withb)

InitLegacy ==
    /\ \E b \in LegacyShapes, g \in LegacyShapes :
          /\ dirent = [p \in Paths |-> IF p = "state" THEN 1 ELSE 0]
          /\ inode = [i \in Inodes |-> IF i = 1 THEN pickle_dump(LegacySession(b, g)) ELSE <<>>]
    /\ chunks = FALSE
    /\ pc = [p \in Procs |-> "idle"]
    /\ cmd = [p \in Procs |-> "none"]
    /\ state = [p \in Procs |-> EmptyDict]
    /\ rs = [p \in Procs |-> EmptyRs]
    /\ fd = [p \in Procs |-> NoFd]
    /\ status = [p \in Procs |-> RUNNING]
    /\ cap = [p \in Procs |-> EmptyCap]
    /\ emitted = [p \in Procs |-> NoOutput]
    /\ hist = [p \in Procs |-> NoHist]
    /\ call = NoCall

LegacyPrograms ==
    {<<>>} \cup {<<s>> : s \in {"buffers.append('b')", "add_buffer('a')", "buffers = None",
                               "del buffers", "x = 'v1'", "del x", "f = lambda: 0",
                               "raise ValueError"}}

NextLegacy ==
    \E p \in {1} :
        \/ cmd_init(p)
        \/ cmd_init_dir(p)
        \/ InitDone(p)
        \/ cmd_exec(p)
        \/ \E code \in LegacyPrograms : ExecRun(p, code)
        \/ Reconcile(p)
        \/ SaveOpen(p)
        \/ SaveWrite(p)
        \/ SaveReplace(p)
        \/ ExecEmit(p)

SpecLegacy == InitLegacy /\ [][NextLegacy]_vars

\* The helpers called on a text, apart from any session: no command runs,
\* the call is all that happens.
NoSession ==
    /\ dirent = [p \in Paths |-> 0]
    /\ inode = [i \in Inodes |-> <<>>]
    /\ chunks = FALSE
    /\ pc = [p \in Procs |-> "idle"]
    /\ cmd = [p \in Procs |-> "none"]
    /\ state = [p \in Procs |-> EmptyDict]
    /\ rs = [p \in Procs |-> EmptyRs]
    /\ fd = [p \in Procs |-> NoFd]
    /\ status = [p \in Procs |-> RUNNING]
    /\ cap = [p \in Procs |-> EmptyCap]
    /\ emitted = [p \in Procs |-> NoOutput]
    /\ hist = [p \in Procs |-> NoHist]

progvars == <<dirent, inode, chunks, pc, cmd, state, rs, fd, status, cap,
              emitted, hist>>

\* The helper fn is called with args on the text at hand, once, and returns
\* or raises r.
Called(fn, args, r) ==
    /\ call.fn = "none"
    /\ call' = [fn |-> fn, text |-> call.text, current |-> call.text, args |-> args,
                ret |-> r.ret, exc |-> r.exc, wrote |-> <<>>]
    /\ UNCHANGED progvars

\* chunk_indices on contents of every length up to MaxText, with sizes and
\* overlaps on both sides of what it accepts.
RECURSIVE Filler(_)
Filler(n) == IF n <= 0 THEN <<>> ELSE <<"a">> \o Filler(n - 1)

ChunkSizes == -1..MaxSize
ChunkOverlaps == -1..MaxSize

InitChunks ==
    /\ NoSession
    /\ \E n \in 0..MaxText : call = [NoCall EXCEPT !.text = Filler(n)]

Call_chunk_indices ==
    \E size \in ChunkSizes, overlap \in ChunkOverlaps :
        Called("chunk_indices", <<size, overlap>>,
               chunk_indices(call.text, size, overlap))

NextChunks == Call_chunk_indices

SpecChunks == InitChunks /\ [][NextChunks]_vars

\* grep and grep_count on texts of lines with one- and two-character
\* terminators.
InitGrep ==
    /\ NoSession
    /\ \E text \in LineTexts : call = [NoCall EXCEPT !.text = text]

Call_grep ==
    \E pattern \in GrepPatterns, max_matches \in GrepLimits :
        Called("grep", <<pattern, max_matches, DEFAULT_GREP_WINDOW>>,
               grep(call.text, pattern, max_matches, DEFAULT_GREP_WINDOW))

Call_grep_count ==
    \E pattern \in GrepPatterns :
        Called("grep_count", <<pattern>>, grep_count(call.text, pattern))

NextGrep ==
    \/ Call_grep
    \/ Call_grep_count

SpecGrep == InitGrep /\ [][NextGrep]_vars

\* The helpers that take a limit, called with limits from 0 up.
InitLimits ==
    /\ NoSession
    /\ \E text \in LimitTexts : call = [NoCall EXCEPT !.text = text]

Limited_grep ==
    \E pattern \in GrepPatterns, max_matches \in Limits(DEFAULT_GREP_MAX_MATCHES) :
        Called("grep", <<pattern, max_matches, DEFAULT_GREP_WINDOW>>,
               grep(call.text, pattern, max_matches, DEFAULT_GREP_WINDOW))

Limited_find_lines ==
    \E pattern \in GrepPatterns, max_matches \in Limits(DEFAULT_FIND_MAX_MATCHES) :
        Called("find_lines", <<pattern, max_matches>>,
               find_lines(call.text, pattern, max_matches))

Limited_extract_json_objects ==
    \E max_objects \in Limits(DEFAULT_MAX_OBJECTS) :
        Called("extract_json_objects", <<max_objects>>,
               extract_json_objects(call.text, max_objects))

NextLimits ==
    \/ Limited_grep
    \/ Limited_find_lines
    \/ Limited_extract_json_objects

SpecLimits == InitLimits /\ [][NextLimits]_vars

\* extract_yaml_documents on texts with separators at the start, in the
\* middle and at the end.
InitYaml ==
    /\ NoSession
    /\ \E text \in YamlTexts : call = [NoCall EXCEPT !.text = text]

Call_extract_yaml_documents ==
    \E max_docs \in Limits(DEFAULT_MAX_DOCS) :
        Called("extract_yaml_documents", <<max_docs>>,
               extract_yaml_documents(call.text, max_docs))

NextYaml == Call_extract_yaml_documents

SpecYaml == InitYaml /\ [][NextYaml]_vars

\* -------------------------------------------------------------------- claims

\* What a reader of the locator gets from pickle.load, and the file as it is.
Stored == pickle_load(FileAt("state"))
\* The file at the locator is the same after the step as before it.
LocatorUnchanged ==
    /\ (dirent'["state"] = 0) = (dirent["state"] = 0)
    /\ dirent["state"] # 0 => inode'[dirent'["state"]] = inode[dirent["state"]]
\* An exec whose caller code has come to its end, in a process that was not
\* killed.
RunEnded(p) ==
    pc[p] = "done" /\ cmd[p] = "exec" /\ hist[p].ran /\ status[p] # EXIT_KILLED

\* C1: every step of an invocation that is inside _save_state (it writes
\* the temporary file, is killed, fails, or replaces) leaves the file at the
\* locator exactly as it was, or is the replace that makes it the complete
\* serialization of the new session.
C1_SaveAtomic ==
    [][\A p \in Procs :
          pc[p] \in {"save", "writing", "replace"} =>
              \/ LocatorUnchanged
              \/ /\ pc[p] = "replace" /\ pc'[p] = "saved"
                 /\ inode'[dirent'["state"]] = pickle_dump(state[p])]_vars

\* C1, the case: a process was killed while it wrote; the temporary file is
\* partial and the file at the locator is a complete session.
C1_Witness ==
    \E p \in Procs :
        /\ status[p] = EXIT_KILLED
        /\ Exists(tmp_path) /\ ~pickle_load(FileAt(tmp_path)).ok
        /\ Exists("state") /\ Stored.ok /\ isinstance_dict(Stored.val)

\* C2: with concurrent saves, the file at the locator is at every moment
\* the complete serialization of a session that some invocation handed to
\* save (or the session that was there from the start).
C2_NoTornRead ==
    Exists("state") =>
        FileAt("state") \in
            {pickle_dump(ConcSession)}
            \cup {pickle_dump(hist[p].session) : p \in {q \in Procs : hist[q].session # None}}

\* C3: an exec whose caller code raised, whatever it raised, has the trace
\* in its captured stderr while it runs, and ends saved with status 0.
C3_ErrorsRecovered ==
    \A p \in Procs :
        (cmd[p] = "exec" /\ hist[p].ran /\ hist[p].raised # "none") =>
            /\ pc[p] \in {"ran", "save", "writing", "replace", "saved"}
                   => cap[p].err = <<"Traceback">>
            /\ RunEnded(p) => (status[p] = EXIT_OK /\ hist[p].saved)

\* C4: a session that init, init-dir or exec has saved has a context that
\* is a record with content.
C4_SavedContextHasContent ==
    \A p \in Procs :
        (hist[p].saved /\ pc[p] \in {"saved", "done"}) =>
            /\ Exists("state") /\ Stored.ok /\ isinstance_dict(Stored.val)
            /\ In("context", Stored.val)
            /\ isinstance_dict(Stored.val.val["context"])
            /\ In("content", Stored.val.val["context"])

\* C5: after an exec, the persisted-variables mapping of the session at the
\* locator is exactly the end-of-run bindings whose name is not injected and
\* whose value is serializable.
C5_GlobalsAreFilteredEnv ==
    \A p \in Procs :
        RunEnded(p) =>
            LET keep == {n \in DOMAIN hist[p].vars \ injected_keys :
                            Pickleable(hist[p].vars[n])}
            IN  /\ Exists("state") /\ Stored.ok /\ isinstance_dict(Stored.val)
                /\ In("globals", Stored.val)
                /\ Stored.val.val["globals"] = Dict([n \in keep |-> hist[p].vars[n]])

\* C6: when an exec follows an exec, every variable that was bound under a
\* non-injected name to a serializable value when the first run ended is
\* bound to the same value in the environment the second run starts with.
C6_VariablesCarryOver ==
    [][\A p \in Procs :
          (RunEnded(p) /\ pc'[p] = "loaded") =>
              \A n \in DOMAIN hist[p].vars \ injected_keys :
                  Pickleable(hist[p].vars[n]) =>
                      /\ n \in DOMAIN rs'[p].env
                      /\ rs'[p].env[n] = hist[p].vars[n]]_vars

\* C7: after an exec, every candidate variable is either in the persisted
\* mapping or dropped, never both; one whose value cannot be serialized was
\* bound when the run ended, is not in the mapping, the exec returned 0 and
\* saved, and the warning names it exactly when the warning was requested,
\* never printing the value.
C7_UnpicklableDropped ==
    \A p \in Procs :
        RunEnded(p) =>
            \A n \in DOMAIN hist[p].vars \ injected_keys :
                ~Pickleable(hist[p].vars[n]) =>
                    /\ status[p] = EXIT_OK /\ hist[p].saved
                    /\ Exists("state") /\ Stored.ok /\ isinstance_dict(Stored.val)
                    /\ In("globals", Stored.val)
                    /\ ~In(n, Stored.val.val["globals"])
                    /\ (\E i \in DOMAIN emitted[p].warning : emitted[p].warning[i] = n)
                           <=> hist[p].warn
                    /\ \A i \in DOMAIN emitted[p].warning :
                           emitted[p].warning[i] # hist[p].vars[n].val

\* C8: the reconcile step makes the environment's context the session's
\* context when it is a record with content; when the caller code removed
\* the binding or rebound it to something else, the session is left with
\* the context that was loaded.  The same for buffers and sequences.
C8_ReconcileKeepsPrior ==
    [][\A p \in Procs :
          (pc[p] = "ran" /\ pc'[p] = "save") =>
              LET r == rs[p]
                  c == Deref(r, maybe_ctx(r))
                  b == Deref(r, maybe_buffers(r))
                  prior == Stored.val
                  prior_buffers == IF In("buffers", prior) /\ isinstance_list(prior.val["buffers"])
                                   THEN prior.val["buffers"] ELSE EmptyList
              IN  /\ IF isinstance_dict(c) /\ In("content", c)
                     THEN state'[p].val["context"] = c
                     ELSE maybe_ctx(r) # Ref("ctx")
                              => state'[p].val["context"] = prior.val["context"]
                  /\ IF isinstance_list(b)
                     THEN state'[p].val["buffers"] = b
                     ELSE maybe_buffers(r) # Ref("buf")
                              => state'[p].val["buffers"] = prior_buffers]_vars

\* C9: with overlapping execs, every replace succeeds and makes the file at
\* the locator the session of the invocation that did it, and nothing but a
\* replace changes that file; so the session of the last replace is what
\* stays.
C9_LastWriterWins ==
    [][/\ \A p \in Procs :
             (pc[p] = "replace" /\ pc'[p] # "replace") =>
                 /\ pc'[p] = "saved"
                 /\ inode'[dirent'["state"]] = pickle_dump(state[p])
       /\ (\A p \in Procs : ~(pc[p] = "replace" /\ pc'[p] # "replace"))
              => LocatorUnchanged]_vars

\* C10: exec, status and export-buffers started when nothing is at the
\* locator end with the no-state error, and started on a stored value that
\* is no dict with the corrupt-state error; the status is 2, not 0, the
\* caller code has not run, and the file system at the locator is as it was.
C10_LoadErrors ==
    [][\A p \in Procs :
          (/\ pc[p] \in {"idle", "done"}
           /\ cmd'[p] \in {"exec", "status", "export-buffers"}
           /\ \/ ~Exists("state")
              \/ Stored.ok /\ ~isinstance_dict(Stored.val)) =>
              /\ pc'[p] = "done"
              /\ status'[p] = EXIT_RLM_ERROR /\ status'[p] # EXIT_OK
              /\ emitted'[p].err = <<"ERROR", IF Exists("state") THEN "corrupt" ELSE "no_state">>
              /\ emitted'[p].out = <<>> /\ ~emitted'[p].wrote
              /\ ~hist'[p].ran
              /\ UNCHANGED <<dirent, inode>>]_vars

\* C10, the case: an exec on a stored list has ended with the corrupt-state
\* error.
C10_Witness ==
    \E p \in Procs :
        /\ pc[p] = "done" /\ cmd[p] = "exec"
        /\ status[p] = EXIT_RLM_ERROR
        /\ emitted[p].err = <<"ERROR", "corrupt">>
        /\ Exists("state") /\ Stored.ok /\ isinstance_list(Stored.val)

\* The content, the buffers and the persisted variables of a session.
ContentOf(st) == DictGet(DictGet(st, "context", EmptyDict), "content", None)
BuffersOf(st) == DictGet(st, "buffers", None)
GlobalsOf(st) == DictGet(st, "globals", None)

\* C11: when _save_state has returned, _load_state on the same path gives a
\* dict whose content, buffers and persisted variables are those of the
\* state that was saved.
C11_RoundTrip ==
    \A p \in Procs :
        pc[p] = "saved" =>
            /\ _load_state.err = "none"
            /\ ContentOf(_load_state.val) = ContentOf(state[p])
            /\ BuffersOf(_load_state.val) = BuffersOf(state[p])
            /\ GlobalsOf(_load_state.val) = GlobalsOf(state[p])

\* C11, the case: an exec has saved a session with changed content, two
\* buffers and a persisted variable.
C11_Witness ==
    \E p \in Procs :
        /\ pc[p] = "saved" /\ cmd[p] = "exec"
        /\ ContentOf(state[p]) = Atom("c1")
        /\ BuffersOf(state[p]) = List(<<"a", "b">>)
        /\ GlobalsOf(state[p]) = Dict("x" :> Atom("v1"))
        /\ _load_state.val = state[p]

Covered(spans, n) ==
    {k \in 0..(n - 1) : \E i \in 1..Len(spans) : spans[i][1] <= k /\ k < spans[i][2]}

\* C13: chunk_indices(size, overlap) with 0 < overlap < size returns spans
\* that lie in [0, len(content)) and cover every offset of it, the first
\* starting at 0 and the last ending at len(content), each starting before
\* the one before it ends; two consecutive spans share exactly `overlap`
\* characters, the pair that ends with the last span possibly excepted.
C13_ChunksCover ==
    (call.fn = "chunk_indices" /\ 0 < call.args[2] /\ call.args[2] < call.args[1]) =>
        LET spans == call.ret
            n == Len(call.text)
            k == Len(spans)
        IN  /\ call.exc = "none"
            /\ \A i \in 1..k : 0 <= spans[i][1] /\ spans[i][1] < spans[i][2] /\ spans[i][2] <= n
            /\ Covered(spans, n) = 0..(n - 1)
            /\ n > 0 => (k > 0 /\ spans[1][1] = 0 /\ spans[k][2] = n)
            /\ \A i \in 1..(k - 1) : spans[i][1] < spans[i + 1][1] /\ spans[i + 1][1] <= spans[i][2]
            /\ \A i \in 1..(k - 2) : spans[i][2] - spans[i + 1][1] = call.args[2]

\* C13, the case: a content of seven characters cut into chunks of three
\* with overlap one.
C13_Witness ==
    /\ call.fn = "chunk_indices"
    /\ call.args = <<3, 1>>
    /\ call.ret = <<<<0, 3>>, <<2, 5>>, <<4, 7>>>>

\* size and overlap are arguments that chunk_indices refuses.
InvalidChunkArgs(args) == args[1] <= 0 \/ args[2] < 0 \/ args[2] >= args[1]

\* C14: when the caller code calls chunk_indices or write_chunks with
\* size <= 0, overlap < 0 or overlap >= size, the call raises ValueError
\* into the caller code, returns no span and no path, writes no chunk file
\* and does not make the chunks directory; the run that does not catch it
\* ends with status 0 and the state saved.
C14_InvalidChunkArgs ==
    \A p \in Procs :
        LET c == hist[p].call
        IN  (c.fn \in {"chunk_indices", "write_chunks"} /\ InvalidChunkArgs(c.args)) =>
                /\ c.exc = "ValueError"
                /\ c.ret = <<>>
                /\ c.wrote = <<>>
                /\ hist[p].raised = "Exception"
                /\ pc[p] = "ran" => (~rs[p].wrote_chunks /\ cap[p].err = <<"Traceback">>)
                /\ pc[p] = "done" =>
                      /\ status[p] = EXIT_OK
                      /\ hist[p].saved
                      /\ _load_state.err = "none"
                      /\ _load_state.val = hist[p].session

\* C14, the case: an exec whose caller code called write_chunks with size 0
\* has ended: ValueError, no chunks directory, the state saved.
C14_Witness ==
    \E p \in Procs :
        /\ pc[p] = "done" /\ cmd[p] = "exec"
        /\ hist[p].call.fn = "write_chunks"
        /\ hist[p].call.args = <<0, 0>>
        /\ hist[p].call.exc = "ValueError"
        /\ hist[p].saved
        /\ ~chunks

\* C15: when max_matches is greater than the number of matches that
\* grep_count counts for the pattern, grep returns that many results, and
\* their spans go from left to right without overlapping.
C15_GrepCount ==
    (call.fn = "grep" /\ call.args[2] > grep_count(call.text, call.args[1]).ret) =>
        /\ call.exc = "none"
        /\ Len(call.ret) = grep_count(call.text, call.args[1]).ret
        /\ \A i \in 1..(Len(call.ret) - 1) :
              /\ call.ret[i].span[2] <= call.ret[i + 1].span[1]
              /\ call.ret[i].span[1] < call.ret[i + 1].span[1]

\* C15, the case: grep with the default limit for a pattern that matches
\* the empty string, on a text of two lines: an empty match, a run, and an
\* empty match at the end.
C15_Witness ==
    /\ call.fn = "grep"
    /\ call.args[1] = Star("a")
    /\ call.args[2] = DEFAULT_GREP_MAX_MATCHES
    /\ call.text = <<LF, "a">>
    /\ Len(call.ret) = 3
    /\ call.ret[1].span = <<0, 0>>
    /\ call.ret[2].span = <<1, 2>>
    /\ call.ret[3].span = <<2, 2>>

\* The offsets at which a line of the text starts: 0, and the offset after
\* every terminator ("\r\n" being one terminator) that a character follows.
TrueLineStarts(text) ==
    {0} \cup {j \in 1..(Len(text) - 1) :
                \/ text[j] = LF
                \/ (text[j] = CR /\ text[j + 1] # LF)}

\* The 1-indexed number of the line that holds offset pos.
TrueLine(text, pos) == Cardinality({st \in TrueLineStarts(text) : st <= pos})

\* C16: the line that grep reports for a match that starts on a character
\* of a line is the 1-indexed number of the line that holds the start
\* offset: the number of true line starts that are <= the start.
C16_LineOfMatch ==
    call.fn = "grep" =>
        \A i \in 1..Len(call.ret) :
            LET start == call.ret[i].span[1]
            IN  (start < Len(call.text) /\ call.text[start + 1] \notin {CR, LF}) =>
                    call.ret[i].line = TrueLine(call.text, start)

\* C17: the text that an accessor called by the caller code works on is the
\* content of the session at that moment, the one that would be saved if
\* the run ended there.
C17_AccessorsSeeCurrent ==
    \A p \in Procs :
        rs[p].call.fn = "peek" =>
            /\ rs[p].call.text = rs[p].call.current
            /\ rs[p].call.ret = rs[p].call.current

\* seq is a subsequence of full: its elements, in its order.
RECURSIVE IsSubSeq(_, _)
IsSubSeq(seq, full) ==
    IF seq = <<>> THEN TRUE
    ELSE IF full = <<>> THEN FALSE
    ELSE IF Head(seq) = Head(full) THEN IsSubSeq(Tail(seq), Tail(full))
    ELSE IsSubSeq(seq, Tail(full))

\* C18: when cmd_exec builds the state to save after the caller code, the
\* buffers of that state hold every string that add_buffer was given during
\* the run, in call order.
C18_AddedBuffersSaved ==
    [][\A p \in Procs :
        (pc[p] = "ran" /\ pc'[p] = "save") =>
            /\ isinstance_list(BuffersOf(state'[p]))
            /\ IsSubSeq(rs[p].added, BuffersOf(state'[p]).val)
      ]_vars

\* The limit a call was given, and what the helper returns with no limit
\* to stop it.
LimitOf(c) == IF c.fn = "extract_json_objects" THEN c.args[1] ELSE c.args[2]
Unlimited(c) ==
    LET all == Len(c.text) + 2
    IN  CASE c.fn = "grep" -> grep(c.text, c.args[1], all, c.args[3]).ret
          [] c.fn = "find_lines" -> find_lines(c.text, c.args[1], all).ret
          [] c.fn = "extract_json_objects" -> extract_json_objects(c.text, all).ret

\* C19: grep, find_lines and extract_json_objects, called with a limit that
\* is not negative, return at most that many results: the first ones, in
\* the order of the content.
C19_AtMostLimit ==
    (call.fn \in {"grep", "find_lines", "extract_json_objects"} /\ LimitOf(call) >= 0) =>
        /\ Len(call.ret) <= LimitOf(call)
        /\ call.ret = SubSeq(Unlimited(call), 1, Len(call.ret))

\* C20: extract_yaml_documents(max_docs) returns the first min(max_docs, k)
\* of the k segments between whole-line '---' separators that are not empty
\* when stripped, stripped and in order; an empty segment takes no place
\* among the max_docs.
C20_YamlDocuments ==
    call.fn = "extract_yaml_documents" =>
        LET nonempty == StripNonEmpty(re_split_yaml(call.text), 1)
        IN  call.ret = SubSeq(nonempty, 1, min(call.args[1], Len(nonempty)))

\* C21: every step of an exec that is not killed is one of: the load, to
\* Loaded or, with the error exit and nothing run, saved or printed, to
\* Failed; the one execution of the caller code, Loaded to Running done; the
\* reconciliation; the steps of the one save, which come after it; and the
\* emission of the captured output, after the save, with the success exit.
C21_ExecLifecycle ==
    [][\A p \in Procs :
        (cmd'[p] = "exec" /\ status'[p] # EXIT_KILLED) =>
            \/ /\ Free(p)
               /\ pc'[p] = "loaded"
               /\ ~hist'[p].ran /\ ~hist'[p].saved
               /\ emitted'[p] = NoOutput
            \/ /\ Free(p)
               /\ pc'[p] = "done"
               /\ status'[p] \in {EXIT_RLM_ERROR, EXIT_UNCAUGHT}
               /\ ~hist'[p].ran /\ ~hist'[p].saved
               /\ emitted'[p].out = <<>>
               /\ LocatorUnchanged
            \/ /\ pc[p] = "loaded" /\ pc'[p] = "ran"
               /\ ~hist[p].ran /\ hist'[p].ran /\ ~hist'[p].saved
               /\ emitted'[p] = NoOutput
               /\ LocatorUnchanged
            \/ /\ pc[p] = "ran" /\ pc'[p] = "save"
               /\ hist'[p].ran /\ ~hist'[p].saved
               /\ emitted'[p] = NoOutput
               /\ LocatorUnchanged
            \/ /\ pc[p] = "save" /\ pc'[p] = "writing"
               /\ hist'[p] = hist[p]
               /\ emitted'[p] = NoOutput
            \/ /\ pc[p] = "writing" /\ pc'[p] \in {"writing", "replace"}
               /\ hist'[p] = hist[p]
               /\ emitted'[p] = NoOutput
            \/ /\ pc[p] = "replace" /\ pc'[p] = "saved"
               /\ hist[p].ran /\ ~hist[p].saved /\ hist'[p].saved
               /\ emitted'[p] = NoOutput
            \/ /\ pc[p] = "saved" /\ pc'[p] = "done"
               /\ hist[p].ran /\ hist[p].saved
               /\ status'[p] = EXIT_OK
               /\ LocatorUnchanged
      ]_vars

\* C22: an exec started on a loadable session with a valid context goes on
\* to run the caller code, with its buffers the loaded list, or an empty
\* one when there is no list, and its variables those of the loaded
\* mapping, or none when there is no mapping; and whenever init, init-dir
\* or exec has replaced the state file, the session in it has a list as
\* buffers and a dict as globals.
C22_TolerantReadStrictWrite ==
    [][\A p \in Procs :
        /\ (Free(p) /\ cmd'[p] = "exec" /\ _load_state.err = "none"
              /\ isinstance_dict(DictGet(_load_state.val, "context", None))
              /\ ContentOf(_load_state.val) # None) =>
              LET b == DictGet(_load_state.val, "buffers", None)
                  g == DictGet(_load_state.val, "globals", None)
                  vs == IF isinstance_dict(g)
                        THEN [k \in DOMAIN g.val \ injected_keys |-> g.val[k]]
                        ELSE <<>>
              IN  /\ pc'[p] = "loaded"
                  /\ rs'[p].heap["buf"] = IF isinstance_list(b) THEN b ELSE EmptyList
                  /\ CallerVars(rs'[p].env) = vs
        /\ (pc[p] = "replace" /\ pc'[p] = "saved") =>
              LET written == pickle_load(inode'[dirent'["state"]])
              IN  /\ written.ok
                  /\ isinstance_list(BuffersOf(written.val))
                  /\ isinstance_dict(GlobalsOf(written.val))
      ]_vars

\* C22, the case: an exec that loaded a session with neither buffers nor
\* globals, still at the locator, has written its session to the temporary
\* file with an empty buffers list and an empty globals dict.
C22_Witness ==
    \E p \in Procs :
        /\ pc[p] = "replace" /\ cmd[p] = "exec"
        /\ Stored.ok
        /\ BuffersOf(Stored.val) = None
        /\ GlobalsOf(Stored.val) = None
        /\ BuffersOf(pickle_load(FileAt("tmp")).val) = EmptyList
        /\ GlobalsOf(pickle_load(FileAt("tmp")).val) = EmptyDict

====
